---- MODULE Spec2Model ----
(***************************************************************************)
(* Model of the page-interaction scripts of vncsmnl.github.io:             *)
(*   src/script.js          the stand-alone blur/focus title script        *)
(*   src/unnamed/part_000   CONFIG, Utils, PageTitleManager, ThemeManager  *)
(*   src/unnamed/part_001   ThemeToggleModal (the theme selector popover)  *)
(* The state is the part of the DOM the scripts read and write (the root   *)
(* element's class list, the two themed images, the popover's panel, icons *)
(* and options, the document title), localStorage's 'littlelink-theme'     *)
(* key, the system colour-scheme signal, and the fields of the three       *)
(* singleton objects.  Every event handler is one action.                  *)
(***************************************************************************)
EXTENDS Integers, Sequences, FiniteSets, TLC

VARIABLES
    legacyScript,    \* script.js is on the page
    mainScript,      \* part_000 (App, PageTitleManager, ThemeManager) is on the page
    controlsInModal, \* the toggle button and the options lie inside #theme-toggle-modal
    html,            \* the page's markup: what a load starts from
    hasMatchMedia,   \* window.matchMedia exists
    systemDark,      \* matchMedia('(prefers-color-scheme: dark)').matches
    title,           \* document.title
    docTitle,        \* script.js: let docTitle
    originalTitle,   \* PageTitleManager.originalTitle
    rootClasses,     \* document.documentElement.classList
    storage,         \* localStorage.getItem('littlelink-theme')
    imgSrc,          \* src of #signature and #rate-icon, or NoElement
    observer,        \* ThemeManager.observer
    pending,         \* mutation records queued for the observer
    tmMediaBound,    \* ThemeManager.bindEvents registered its change listener
    ptmBound,        \* PageTitleManager.bindEvents registered its listeners
    appInitDone,     \* the DOMContentLoaded handler of part_000 has run
    modalInitDone,   \* the DOMContentLoaded handler of part_001 has run
    isOpen,          \* ThemeToggleModal.isOpen
    currentTheme,    \* ThemeToggleModal.currentTheme
    panelActive,     \* #theme-options-panel carries class 'active'
    icons,           \* the icons of the toggle button that carry class 'active'
    activeOptions,   \* the .theme-option elements that carry class 'active'
    focused,         \* document.activeElement, as far as the scripts move it
    err,             \* an uncaught exception has been raised by a handler
    lastOp,          \* history: the handler that ran last, and its input
    windowEvents,    \* history: the last window blur/focus events since load, oldest first
    effective,       \* the value the last call of getEffectiveTheme returned
    toggleRun,       \* history: toggle activations since the popover was last closed by another event
    lastSetTheme,    \* history: argument of the last setTheme call of this page load
    prevTheme        \* history: lastSetTheme of the previous page load

vars == << legacyScript, mainScript, controlsInModal, html, hasMatchMedia, systemDark,
           title, docTitle, originalTitle, rootClasses, storage, imgSrc,
           observer, pending, tmMediaBound, ptmBound, appInitDone, modalInitDone,
           isOpen, currentTheme, panelActive, icons, activeOptions, focused, err,
           lastOp, windowEvents, effective, toggleRun, lastSetTheme, prevTheme >>

----------------------------------------------------------------------------
(* Bounds of the model *)

\* most toggle-button activations in a row before another popover event
MaxToggles == 3

\* the window events the history keeps
MaxHistory == 3

----------------------------------------------------------------------------
(* Configuration: part_000 CONFIG, and the literals of part_001 and script.js *)

THEME_LIGHT == "theme-light"
THEME_DARK == "theme-dark"
THEME_AUTO == "theme-auto"

\* the three marker classes setTheme removes and loadSavedTheme accepts
ValidThemes == {THEME_LIGHT, THEME_DARK, THEME_AUTO}

\* CONFIG.MESSAGES.BLUR_TITLE
BLUR_TITLE == "Ooops, ainda estou aqui!"

\* the literal of script.js, which starts with a "back" emoji (written <back> here)
LEGACY_BLUR_TITLE == "<back> Ooops, ainda estou aqui!"

Roles == {"signature", "rate-icon"}

IMAGES == [r \in Roles |->
             IF r = "signature"
             THEN [dark |-> "./images/signature.gif", light |-> "./images/signature_alt.gif"]
             ELSE [dark |-> "./images/rate1_w.png", light |-> "./images/rate1.png"]]

\* getElementById returned null
NoElement == "null"

\* absent values
None == "none"

Icons == {"sun-icon", "moon-icon", "auto-icon"}

\* the data-theme values of the .theme-option elements
Options == ValidThemes

\* a mutation record queued by a change of the root element's class attribute
ClassRecord == [type |-> "attributes", attributeName |-> "class"]

----------------------------------------------------------------------------
(* part_000: Utils *)

\* String.prototype.includes on className.  No class name of the model is a
\* substring of another, so the substring test is membership of the token.
includes(cls, needle) == needle \in cls

\* Utils.isDarkMode raises a TypeError: 'theme-dark' is not there, 'theme-auto'
\* is, and window.matchMedia is called although it is undefined
isDarkModeThrows(cls, mm) ==
    /\ ~includes(cls, THEME_DARK)
    /\ includes(cls, THEME_AUTO)
    /\ ~mm

\* Utils.isDarkMode, when it returns
isDarkMode(cls, mm, dark) ==
    \/ includes(cls, THEME_DARK)
    \/ (includes(cls, THEME_AUTO) /\ mm /\ dark)

\* Utils.updateImageSrc: the element's new src, and whether the call threw
updateImageSrc(element, imagePaths, cls, mm, dark) ==
    IF element = NoElement
    THEN [src |-> element, threw |-> FALSE]
    ELSE IF isDarkModeThrows(cls, mm)
         THEN [src |-> element, threw |-> TRUE]
         ELSE [src |-> IF isDarkMode(cls, mm, dark)
                       THEN imagePaths.dark
                       ELSE imagePaths.light,
               threw |-> FALSE]

----------------------------------------------------------------------------
(* part_000: ThemeManager *)

\* ThemeManager.updateImagesForTheme: signature first, then rate-icon; an
\* exception in the first call skips the second
updateImagesForTheme(img, cls, mm, dark) ==
    LET s == updateImageSrc(img["signature"], IMAGES["signature"], cls, mm, dark)
        r == updateImageSrc(img["rate-icon"], IMAGES["rate-icon"], cls, mm, dark)
    IN  IF s.threw
        THEN [img |-> img, threw |-> TRUE]
        ELSE [img |-> [x \in Roles |-> IF x = "signature" THEN s.src
                                       ELSE IF r.threw THEN img[x] ELSE r.src],
              threw |-> r.threw]

\* the callback as it would be if it compared attributeName with 'className'
RECURSIVE observerCallbackWrongName(_, _, _, _, _)
observerCallbackWrongName(mutations, img, cls, mm, dark) ==
    IF mutations = << >>
    THEN [img |-> img, threw |-> FALSE]
    ELSE LET mutation == Head(mutations)
         IN  IF mutation.type = "attributes" /\ mutation.attributeName = "className"
             THEN LET u == updateImagesForTheme(img, cls, mm, dark)
                  IN  IF u.threw THEN u
                      ELSE observerCallbackWrongName(Tail(mutations), u.img, cls, mm, dark)
             ELSE observerCallbackWrongName(Tail(mutations), img, cls, mm, dark)

\* the MutationObserver callback: mutations.forEach, one updateImagesForTheme
\* per class-attribute record; an exception ends the callback
RECURSIVE observerCallback(_, _, _, _, _)
observerCallback(mutations, img, cls, mm, dark) ==
    IF mutations = << >>
    THEN [img |-> img, threw |-> FALSE]
    ELSE LET mutation == Head(mutations)
         IN  IF mutation.type = "attributes" /\ mutation.attributeName = "class"
             THEN LET u == updateImagesForTheme(img, cls, mm, dark)
                  IN  IF u.threw THEN u
                      ELSE observerCallback(Tail(mutations), u.img, cls, mm, dark)
             ELSE observerCallback(Tail(mutations), img, cls, mm, dark)

----------------------------------------------------------------------------
(* part_001: ThemeToggleModal, the functions that do not depend on events *)

\* getEffectiveTheme as it would be if it returned the preference unresolved
getEffectiveThemeUnresolved(cur, mm, dark) == cur

\* ThemeToggleModal.getEffectiveTheme
getEffectiveTheme(cur, mm, dark) ==
    IF cur = THEME_AUTO
    THEN (IF mm /\ dark THEN THEME_DARK ELSE THEME_LIGHT)
    ELSE cur

\* updateButtonIcon as it would be if it toggled the icon's class and removed none
updateButtonIconToggles(ic, cur, mm, dark) ==
    LET activeIcon ==
            IF cur = THEME_LIGHT THEN {"sun-icon"}
            ELSE IF cur = THEME_DARK THEN {"moon-icon"}
            ELSE IF cur = THEME_AUTO
                 THEN (IF mm /\ dark THEN {"moon-icon"} ELSE {"sun-icon"})
                 ELSE {}
    IN  (ic \ activeIcon) \cup (activeIcon \ ic)

\* updateButtonIcon as it would be if theme-auto activated the auto icon
updateButtonIconShowsAuto(ic, cur, mm, dark) ==
    LET cleared == ((ic \ {"sun-icon"}) \ {"moon-icon"}) \ {"auto-icon"}
        activeIcon ==
            IF cur = THEME_LIGHT THEN {"sun-icon"}
            ELSE IF cur = THEME_DARK THEN {"moon-icon"}
            ELSE IF cur = THEME_AUTO THEN {"auto-icon"}
                 ELSE {}
    IN  cleared \cup activeIcon

\* ThemeToggleModal.updateButtonIcon: the icons carrying 'active' afterwards
updateButtonIcon(ic, cur, mm, dark) ==
    LET cleared == ((ic \ {"sun-icon"}) \ {"moon-icon"}) \ {"auto-icon"}
        activeIcon ==
            IF cur = THEME_LIGHT THEN {"sun-icon"}
            ELSE IF cur = THEME_DARK THEN {"moon-icon"}
            ELSE IF cur = THEME_AUTO
                 THEN (IF mm /\ dark THEN {"moon-icon"} ELSE {"sun-icon"})
                 ELSE {}
    IN  cleared \cup activeIcon

\* ThemeToggleModal.updateActiveOption: the options carrying 'active' afterwards
updateActiveOption(opts, cur) ==
    (opts \ Options) \cup {o \in Options : o = cur}

\* ThemeToggleModal.detectCurrentTheme
detectCurrentTheme(cls) ==
    IF THEME_DARK \in cls THEN THEME_DARK
    ELSE IF THEME_LIGHT \in cls THEN THEME_LIGHT
    ELSE THEME_AUTO

\* The popover's view of the page, as the functions below transform it:
\*   root, cur, store, ic, opts   rootClasses, currentTheme, storage, icons, activeOptions
\*   recs                         pending
\*   lastSet                      lastSetTheme
PopoverView ==
    [root |-> rootClasses, cur |-> currentTheme, store |-> storage, ic |-> icons,
     opts |-> activeOptions, recs |-> pending, lastSet |-> lastSetTheme]

\* ThemeToggleModal.updateUI
updateUI(d, mm, dark) ==
    [d EXCEPT !.ic = updateButtonIcon(d.ic, d.cur, mm, dark),
              !.opts = updateActiveOption(d.opts, d.cur)]

\* the records classList.remove(...) and classList.add(theme) queue: each call
\* sets the class attribute (no record when there is neither attribute nor token)
recordsOfSetTheme(root, observing) ==
    IF ~observing THEN << >>
    ELSE (IF root = {} THEN << >> ELSE << ClassRecord >>) \o << ClassRecord >>

\* setTheme as it would be without the classList.remove call
setThemeKeepsClasses(d, theme, mm, dark, observing) ==
    updateUI([d EXCEPT !.root = d.root \cup {theme},
                       !.cur = theme,
                       !.store = theme,
                       !.recs = d.recs \o recordsOfSetTheme(d.root, observing),
                       !.lastSet = theme],
             mm, dark)

\* setTheme as it would be without the localStorage.setItem call
setThemeForgetsStore(d, theme, mm, dark, observing) ==
    LET removed == d.root \ {THEME_LIGHT, THEME_DARK, THEME_AUTO}
        added == removed \cup {theme}
    IN  updateUI([d EXCEPT !.root = added,
                           !.cur = theme,
                           !.recs = d.recs \o recordsOfSetTheme(d.root, observing),
                           !.lastSet = theme],
                 mm, dark)

\* ThemeToggleModal.setTheme
setTheme(d, theme, mm, dark, observing) ==
    LET removed == d.root \ {THEME_LIGHT, THEME_DARK, THEME_AUTO}
        added == removed \cup {theme}
    IN  updateUI([d EXCEPT !.root = added,
                           !.cur = theme,
                           !.store = theme,
                           !.recs = d.recs \o recordsOfSetTheme(d.root, observing),
                           !.lastSet = theme],
                 mm, dark)

\* loadSavedTheme as it would be with 'theme-dark' missing from its list
loadSavedThemeShortList(d, mm, dark, observing) ==
    IF d.store # None /\ d.store # "" /\ d.store \in {THEME_LIGHT, THEME_AUTO}
    THEN setTheme(d, d.store, mm, dark, observing)
    ELSE d

\* loadSavedTheme as it would be without the check against the list
loadSavedThemeUnchecked(d, mm, dark, observing) ==
    IF d.store # None /\ d.store # ""
    THEN setTheme(d, d.store, mm, dark, observing)
    ELSE d

\* ThemeToggleModal.loadSavedTheme
loadSavedTheme(d, mm, dark, observing) ==
    IF d.store # None /\ d.store # "" /\ d.store \in {THEME_LIGHT, THEME_DARK, THEME_AUTO}
    THEN setTheme(d, d.store, mm, dark, observing)
    ELSE d

\* ThemeToggleModal.init, after bindElements and bindEvents
modalInit(d, mm, dark, observing) ==
    LET detected == [d EXCEPT !.cur = detectCurrentTheme(d.root)]
    IN  loadSavedTheme(updateUI(detected, mm, dark), mm, dark, observing)

\* The panel's state, as openPanel and closePanel transform it
PanelView == [open |-> isOpen, active |-> panelActive, focus |-> focused]

\* openPanel as it would be if it only set the flag
openPanelForgetsClass(p) ==
    [open |-> TRUE, active |-> p.active,
     focus |-> IF Options # {} THEN "first-option" ELSE p.focus]

\* openPanel as it would be without the setTimeout that focuses the first option
openPanelLeavesFocus(p) ==
    [open |-> TRUE, active |-> TRUE, focus |-> p.focus]

\* ThemeToggleModal.openPanel
openPanel(p) ==
    [open |-> TRUE, active |-> TRUE,
     focus |-> IF Options # {} THEN "first-option" ELSE p.focus]

\* closePanel as it would be if it only removed the panel's class
closePanelKeepsFlag(p) ==
    [p EXCEPT !.active = FALSE]

\* ThemeToggleModal.closePanel
closePanel(p) ==
    [p EXCEPT !.active = FALSE, !.open = FALSE]

\* ThemeToggleModal.togglePanel
togglePanel(p) ==
    IF p.open THEN closePanel(p) ELSE openPanel(p)

\* the click listener on document: close unless the target is inside the modal
documentClick(p, targetInModal) ==
    IF ~targetInModal THEN closePanel(p) ELSE p

\* the toggle button's listener as it would be without e.stopPropagation()
toggleLetsPropagate == FALSE

\* the toggle button's listener calls e.stopPropagation()
toggleStopsPropagation == TRUE

\* the click listener of the toggle button, and the listeners the click reaches after it
toggleClick(p, targetInModal) ==
    LET toggled == togglePanel(p)
    IN  IF toggleStopsPropagation THEN toggled
        ELSE documentClick(toggled, targetInModal)

\* the keydown listener on document
documentKeydown(p, key) ==
    IF key = "Escape" /\ p.open THEN closePanel(p) ELSE p

----------------------------------------------------------------------------
(* script.js and part_000: the title handlers *)

\* PageTitleManager.handleBlur
handleBlur(t) == BLUR_TITLE

\* handleFocus as it would be if it left the title as it is
handleFocusKeepsTitle(t, original) == t

\* PageTitleManager.handleFocus
handleFocus(t, original) == original

\* the blur listener of script.js
legacyBlur(t) == LEGACY_BLUR_TITLE

\* the focus listener of script.js
legacyFocus(t, saved) == saved

----------------------------------------------------------------------------
(* The pages a load can start from *)

Titles == {"My Links", "vncsmnl"}

\* class lists of the root element in the markup: any set of marker classes,
\* and a class that is no marker, alone and beside a marker
RootInits == (SUBSET ValidThemes) \cup {{"page"}, {"page", THEME_DARK}}

\* values of the 'littlelink-theme' key: absent, empty, no valid theme, valid
StoredValues == ValidThemes \cup {None, "", "theme-sepia"}

\* the two images of the markup: each is there or not, and those that are
\* there start with the same variant
ImgInits ==
    {[r \in Roles |-> IF r \in there THEN IMAGES[r][v] ELSE NoElement] :
        there \in SUBSET Roles, v \in {"dark", "light"}}

\* the markup the scripts were written for
StandardRoot == {THEME_AUTO}
StandardImg == [r \in Roles |-> IMAGES[r].light]

\* The state when the scripts have been evaluated and no DOMContentLoaded
\* handler has run: script.js has captured docTitle and registered its
\* listeners, part_000 has built PageTitleManager (originalTitle) and
\* ThemeManager (observer: null), part_001 has built ThemeToggleModal.
FreshLoad(h, store, prev) ==
    /\ html = h
    /\ title = h.title
    /\ docTitle = (IF legacyScript THEN h.title ELSE None)
    /\ originalTitle = (IF mainScript THEN h.title ELSE None)
    /\ rootClasses = h.root
    /\ storage = store
    /\ imgSrc = h.img
    /\ observer = "null"
    /\ pending = << >>
    /\ tmMediaBound = FALSE
    /\ ptmBound = FALSE
    /\ appInitDone = FALSE
    /\ modalInitDone = FALSE
    /\ isOpen = FALSE
    /\ currentTheme = THEME_AUTO
    /\ panelActive = FALSE
    /\ icons = h.icons
    /\ activeOptions = {}
    /\ focused = "body"
    /\ err = FALSE
    /\ lastOp = [op |-> "load", arg |-> "", wasOpen |-> FALSE]
    /\ windowEvents = << >>
    /\ effective = None
    /\ toggleRun = 0
    /\ lastSetTheme = None
    /\ prevTheme = prev

\* The theme scripts and the title scripts share no state, so the pages vary
\* one family at a time: every theme configuration on the standard page
\* frame, and every page frame on the standard theme configuration.
Init ==
    /\ hasMatchMedia \in BOOLEAN
    /\ systemDark \in (IF hasMatchMedia THEN BOOLEAN ELSE {FALSE})
    /\ legacyScript \in BOOLEAN
    /\ mainScript \in BOOLEAN
    /\ controlsInModal \in BOOLEAN
    /\ \E h \in [root : RootInits, img : ImgInits, title : Titles,
                 icons : {{}, {"auto-icon"}}],
          store \in StoredValues :
          /\ \/ /\ ~legacyScript /\ mainScript /\ controlsInModal
                /\ h.title = "My Links" /\ h.icons = {"auto-icon"}
             \/ /\ legacyScript \/ mainScript
                /\ hasMatchMedia
                /\ h.root = StandardRoot /\ h.img = StandardImg /\ store = None
          /\ FreshLoad(h, store, None)
----------------------------------------------------------------------------
(* Event handlers *)

Observing == observer = "observing"

\* The page is interactive: every DOMContentLoaded handler has run.  Mutation
\* records are delivered in a microtask, before any other handler runs.
Ready ==
    /\ modalInitDone
    /\ mainScript => appInitDone
    /\ pending = << >>

ApplyPopover(d) ==
    /\ rootClasses' = d.root
    /\ currentTheme' = d.cur
    /\ storage' = d.store
    /\ icons' = d.ic
    /\ activeOptions' = d.opts
    /\ pending' = d.recs
    /\ lastSetTheme' = d.lastSet

ApplyPanel(p) ==
    /\ isOpen' = p.open
    /\ panelActive' = p.active
    /\ focused' = p.focus
    /\ toggleRun' = (IF p.open THEN toggleRun ELSE 0)

PageVars == << legacyScript, mainScript, controlsInModal, html, hasMatchMedia, prevTheme >>
TitleVars == << title, docTitle, originalTitle, windowEvents, effective >>
PopoverVars == << rootClasses, currentTheme, storage, icons, activeOptions, lastSetTheme >>
PanelVars == << isOpen, panelActive, focused, toggleRun >>
ManagerVars == << observer, tmMediaBound, ptmBound, appInitDone >>

\* part_000, DOMContentLoaded: App.init = PageTitleManager.init, then
\* ThemeManager.init = updateImagesForTheme, bindEvents, setupThemeObserver.
\* An exception in updateImagesForTheme ends the handler.
AppInit ==
    /\ mainScript /\ ~appInitDone /\ pending = << >>
    /\ LET u == updateImagesForTheme(imgSrc, rootClasses, hasMatchMedia, systemDark)
       IN  /\ imgSrc' = u.img
           /\ err' = (err \/ u.threw)
           /\ tmMediaBound' = (~u.threw /\ hasMatchMedia)
           /\ observer' = (IF u.threw THEN observer ELSE "observing")
    /\ ptmBound' = TRUE
    /\ appInitDone' = TRUE
    /\ lastOp' = [op |-> "appInit", arg |-> "", wasOpen |-> isOpen]
    /\ UNCHANGED << PageVars, TitleVars, PopoverVars, PanelVars, systemDark,
                    pending, modalInitDone >>

\* part_001, DOMContentLoaded: ThemeToggleModal.init
ModalInit ==
    /\ ~modalInitDone /\ pending = << >>
    /\ ApplyPopover(modalInit(PopoverView, hasMatchMedia, systemDark, Observing))
    /\ modalInitDone' = TRUE
    /\ lastOp' = [op |-> "modalInit", arg |-> "", wasOpen |-> isOpen]
    /\ UNCHANGED << PageVars, TitleVars, PanelVars, ManagerVars, systemDark,
                    imgSrc, err >>

\* a click on the toggle button
ClickToggle ==
    /\ Ready /\ toggleRun < MaxToggles
    /\ LET p == toggleClick(PanelView, controlsInModal)
       IN  /\ isOpen' = p.open
           /\ panelActive' = p.active
           /\ focused' = p.focus
    /\ toggleRun' = toggleRun + 1
    /\ lastOp' = [op |-> "toggle", arg |-> "", wasOpen |-> isOpen]
    /\ UNCHANGED << PageVars, TitleVars, PopoverVars, ManagerVars, systemDark,
                    imgSrc, pending, modalInitDone, err >>

\* a click on the option whose data-theme is theme: the option's listener
\* (setTheme, closePanel), then the listener on document
ClickOption(theme) ==
    /\ Ready
    /\ ApplyPopover(setTheme(PopoverView, theme, hasMatchMedia, systemDark, Observing))
    /\ ApplyPanel(documentClick(closePanel(PanelView), controlsInModal))
    /\ lastOp' = [op |-> "option", arg |-> theme, wasOpen |-> isOpen]
    /\ UNCHANGED << PageVars, TitleVars, ManagerVars, systemDark, imgSrc,
                    modalInitDone, err >>

\* a click anywhere else, inside the modal root or outside of it
ClickElsewhere(targetInModal) ==
    /\ Ready
    /\ ApplyPanel(documentClick(PanelView, targetInModal))
    /\ lastOp' = [op |-> "click", arg |-> IF targetInModal THEN "inside" ELSE "outside", wasOpen |-> isOpen]
    /\ UNCHANGED << PageVars, TitleVars, PopoverVars, ManagerVars, systemDark,
                    imgSrc, pending, modalInitDone, err >>

\* a key press
KeyDown(key) ==
    /\ Ready
    /\ ApplyPanel(documentKeydown(PanelView, key))
    /\ lastOp' = [op |-> "key", arg |-> key, wasOpen |-> isOpen]
    /\ UNCHANGED << PageVars, TitleVars, PopoverVars, ManagerVars, systemDark,
                    imgSrc, pending, modalInitDone, err >>

\* the system colour scheme changes: the change listener of part_001 (updateUI
\* under theme-auto) and that of ThemeManager (updateImagesForTheme)
SystemSchemeChange ==
    /\ Ready /\ hasMatchMedia
    /\ systemDark' = ~systemDark
    /\ LET d == IF currentTheme = THEME_AUTO
                THEN updateUI(PopoverView, hasMatchMedia, systemDark')
                ELSE PopoverView
       IN  ApplyPopover(d)
    /\ LET u == IF tmMediaBound
                THEN updateImagesForTheme(imgSrc, rootClasses, hasMatchMedia, systemDark')
                ELSE [img |-> imgSrc, threw |-> FALSE]
       IN  /\ imgSrc' = u.img
           /\ err' = (err \/ u.threw)
    /\ lastOp' = [op |-> "system", arg |-> "", wasOpen |-> isOpen]
    /\ UNCHANGED << PageVars, TitleVars, PanelVars, ManagerVars, modalInitDone >>

\* the observer's callback receives the queued records
ObserverCallback ==
    /\ pending # << >>
    /\ LET u == observerCallback(pending, imgSrc, rootClasses, hasMatchMedia, systemDark)
       IN  /\ imgSrc' = u.img
           /\ err' = (err \/ u.threw)
    /\ pending' = << >>
    /\ lastOp' = [op |-> "observer", arg |-> "", wasOpen |-> isOpen]
    /\ UNCHANGED << PageVars, TitleVars, PopoverVars, PanelVars, ManagerVars,
                    systemDark, modalInitDone >>

\* destroy as it would be if it left the observer connected
destroyKeepsObserver(obs) == obs

\* ThemeManager.destroy
destroy(obs) == IF obs # "null" THEN "null" ELSE obs

\* A call of ThemeManager.destroy, before or after ThemeManager.init; arg
\* records whether the observer was there
Destroy ==
    /\ mainScript /\ pending = << >>
    /\ observer' = destroy(observer)
    /\ lastOp' = [op |-> "destroy",
                  arg |-> IF observer = "null" THEN "stopped" ELSE "observing",
                  wasOpen |-> isOpen]
    /\ UNCHANGED << PageVars, TitleVars, PopoverVars, PanelVars, systemDark,
                    imgSrc, pending, tmMediaBound, ptmBound, appInitDone,
                    modalInitDone, err >>

\* the history of window events, cut to its last MaxHistory entries
Remember(events, e) ==
    LET all == Append(events, e)
    IN  IF Len(all) > MaxHistory THEN Tail(all) ELSE all

\* the window loses focus: the blur listeners in registration order
WindowBlur ==
    /\ Ready
    /\ LET t1 == IF legacyScript THEN legacyBlur(title) ELSE title
       IN  title' = (IF ptmBound THEN handleBlur(t1) ELSE t1)
    /\ windowEvents' = Remember(windowEvents, "blur")
    /\ lastOp' = [op |-> "blur", arg |-> "", wasOpen |-> isOpen]
    /\ UNCHANGED << PageVars, docTitle, originalTitle, effective, PopoverVars,
                    PanelVars, ManagerVars, systemDark, imgSrc, pending,
                    modalInitDone, err >>

\* the window gains focus: the focus listeners in registration order
WindowFocus ==
    /\ Ready
    /\ LET t1 == IF legacyScript THEN legacyFocus(title, docTitle) ELSE title
       IN  title' = (IF ptmBound THEN handleFocus(t1, originalTitle) ELSE t1)
    /\ windowEvents' = Remember(windowEvents, "focus")
    /\ lastOp' = [op |-> "focus", arg |-> "", wasOpen |-> isOpen]
    /\ UNCHANGED << PageVars, docTitle, originalTitle, effective, PopoverVars,
                    PanelVars, ManagerVars, systemDark, imgSrc, pending,
                    modalInitDone, err >>

\* the page is loaded again: the markup and the scripts start afresh, storage stays
Reload ==
    /\ Ready
    /\ title' = html.title
    /\ docTitle' = (IF legacyScript THEN html.title ELSE None)
    /\ originalTitle' = (IF mainScript THEN html.title ELSE None)
    /\ rootClasses' = html.root
    /\ imgSrc' = html.img
    /\ observer' = "null"
    /\ tmMediaBound' = FALSE
    /\ ptmBound' = FALSE
    /\ appInitDone' = FALSE
    /\ modalInitDone' = FALSE
    /\ isOpen' = FALSE
    /\ currentTheme' = THEME_AUTO
    /\ panelActive' = FALSE
    /\ icons' = html.icons
    /\ activeOptions' = {}
    /\ focused' = "body"
    /\ err' = FALSE
    /\ lastOp' = [op |-> "load", arg |-> "", wasOpen |-> FALSE]
    /\ windowEvents' = << >>
    /\ effective' = None
    /\ toggleRun' = 0
    /\ lastSetTheme' = None
    /\ prevTheme' = lastSetTheme
    /\ UNCHANGED << legacyScript, mainScript, controlsInModal, html, hasMatchMedia,
                    systemDark, storage, pending >>

\* a caller of window.ThemeToggleModal asks for the effective theme
QueryEffectiveTheme ==
    /\ Ready
    /\ effective' = getEffectiveTheme(currentTheme, hasMatchMedia, systemDark)
    /\ lastOp' = [op |-> "query", arg |-> "", wasOpen |-> isOpen]
    /\ UNCHANGED << PageVars, title, docTitle, originalTitle, windowEvents,
                    PopoverVars, PanelVars, ManagerVars, systemDark, imgSrc,
                    pending, modalInitDone, err >>

\* a caller of window.ThemeToggleModal calls updateUI; arg records whether the
\* handler before it was such a call too
CallUpdateUI ==
    /\ Ready
    /\ ApplyPopover(updateUI(PopoverView, hasMatchMedia, systemDark))
    /\ lastOp' = [op |-> "updateUI",
                  arg |-> IF lastOp.op = "updateUI" THEN "again" ELSE "",
                  wasOpen |-> isOpen]
    /\ UNCHANGED << PageVars, TitleVars, PanelVars, ManagerVars, systemDark,
                    imgSrc, modalInitDone, err >>

Keys == {"Escape", "Enter"}

\* The popover and the image synchronizer
Next ==
    \/ AppInit
    \/ ModalInit
    \/ ClickToggle
    \/ \E theme \in Options : ClickOption(theme)
    \/ \E targetInModal \in BOOLEAN : ClickElsewhere(targetInModal)
    \/ \E key \in Keys : KeyDown(key)
    \/ SystemSchemeChange
    \/ ObserverCallback

Spec == Init /\ [][Next]_vars

\* the microtask that delivers the queued mutation records always runs
FairSpec == Spec /\ WF_vars(ObserverCallback)

\* The same, over page loads that follow one another
NextReload == Next \/ Reload

ReloadSpec == Init /\ [][NextReload]_vars

\* The title scripts.  They share no state with the popover and the image
\* synchronizer, whose listeners are left out here.
NextTitle ==
    \/ AppInit
    \/ ModalInit
    \/ ObserverCallback
    \/ WindowBlur
    \/ WindowFocus
    \/ Reload

TitleSpec == Init /\ [][NextTitle]_vars

\* The same as Spec, with calls of getEffectiveTheme
NextQuery == Next \/ QueryEffectiveTheme

QuerySpec == Init /\ [][NextQuery]_vars

\* The same as Spec, with calls of updateUI
NextUpdateUI == Next \/ CallUpdateUI

UpdateUISpec == Init /\ [][NextUpdateUI]_vars

\* The same as Spec, with calls of ThemeManager.destroy
NextTeardown == Next \/ Destroy

TeardownSpec == Init /\ [][NextTeardown]_vars

----------------------------------------------------------------------------
(* Properties *)

\* the theme marker classes among a class list
markers(cls) == cls \cap {THEME_LIGHT, THEME_DARK, THEME_AUTO}

\* C1: after setTheme(p), whatever classes the root element had before, exactly
\* one theme marker class is on the root element, and it is p.  The root
\* element's classes change in setTheme only, so this holds from the call on.
C1_SetThemeLeavesOneMarker ==
    lastSetTheme # None => markers(rootClasses) = {lastSetTheme}

\* C1 happens: the light option was selected on a page whose markup carries
\* the dark marker class and a class that is no marker
C1_Witness ==
    /\ lastOp.op = "option" /\ lastOp.arg = THEME_LIGHT
    /\ html.root = {"page", THEME_DARK}
    /\ rootClasses = {"page", THEME_LIGHT}

\* C2: the popover starts closed and every toggle activation flips it: after n
\* activations in a row it is open iff n is odd; the click on the toggle button
\* does not reach the outside-click close
C2_ToggleParity ==
    /\ isOpen <=> (toggleRun % 2 = 1)
    /\ lastOp.op = "load" => ~isOpen
    /\ lastOp.op = "toggle" => (isOpen <=> ~lastOp.wasOpen)

\* C2 happens: three activations in a row, the button lying outside the modal root
C2_Witness ==
    /\ lastOp.op = "toggle" /\ toggleRun = 3 /\ isOpen
    /\ ~controlsInModal

\* C3: selecting an option, clicking outside the modal root and pressing Escape
\* each leave the popover closed, from open and from closed; after a selection
\* the current preference is the option's theme
C3_ClosingEvents ==
    /\ lastOp.op = "option" => (~isOpen /\ currentTheme = lastOp.arg)
    /\ (lastOp.op = "click" /\ lastOp.arg = "outside") => ~isOpen
    /\ (lastOp.op = "key" /\ lastOp.arg = "Escape") => ~isOpen

\* C3 happens: Escape was pressed while the popover was open
C3_Witness ==
    /\ lastOp.op = "key" /\ lastOp.arg = "Escape" /\ lastOp.wasOpen
    /\ ~isOpen /\ ~panelActive

\* C4: round trip.  When setTheme(p) was the last setTheme call of a page load
\* and the page is loaded again, whatever the markup's root class, then
\* ThemeToggleModal.init ends with currentTheme = p and with p as the only
\* theme marker class on the root element.
C4_RoundTrip ==
    (lastOp.op = "modalInit" /\ prevTheme # None) =>
        /\ currentTheme = prevTheme
        /\ markers(rootClasses) = {prevTheme}

\* C4 happens: theme-dark was set, the page was loaded again from markup that
\* says theme-light, and init has run
C4_Witness ==
    /\ lastOp.op = "modalInit" /\ prevTheme = THEME_DARK
    /\ html.root = {THEME_LIGHT}
    /\ currentTheme = THEME_DARK /\ rootClasses = {THEME_DARK}

\* C5: ThemeToggleModal.init applies a persisted value that is one of the three
\* themes, over whatever the root element's classes say; any other persisted
\* value, or none, is ignored: currentTheme is what detectCurrentTheme finds
\* (dark before light before the default auto), and the root element's
\* classes and the persisted value are untouched.
C5_LoadSavedTheme ==
    [][ (~modalInitDone /\ modalInitDone') =>
          IF storage \in {THEME_LIGHT, THEME_DARK, THEME_AUTO}
          THEN /\ currentTheme' = storage
               /\ markers(rootClasses') = {storage}
               /\ storage' = storage
          ELSE /\ currentTheme' = (IF THEME_DARK \in rootClasses THEN THEME_DARK
                                   ELSE IF THEME_LIGHT \in rootClasses THEN THEME_LIGHT
                                   ELSE THEME_AUTO)
               /\ rootClasses' = rootClasses
               /\ storage' = storage ]_vars

\* C5 happens: init has run with a persisted value that is no theme, on markup
\* that says theme-light
C5_Witness ==
    /\ lastOp.op = "modalInit" /\ storage = "theme-sepia"
    /\ rootClasses = {THEME_LIGHT} /\ currentTheme = THEME_LIGHT

\* the path an image of role r shows when the theme is dark, or light
shows(r, isDark) == IF isDark THEN IMAGES[r].dark ELSE IMAGES[r].light

\* C6: once both components have initialized, and between handlers (no
\* mutation record waits for delivery), every image that exists shows its dark
\* path iff the effective theme, taken from the popover's current preference
\* and the system signal, is theme-dark.  Stated for the ordinary page: the
\* system signal can be queried and the markup carries at most one theme
\* marker class.
C6_ImagesFollowEffectiveTheme ==
    ( /\ appInitDone /\ modalInitDone /\ pending = << >>
      /\ hasMatchMedia
      /\ Cardinality(markers(html.root)) <= 1 ) =>
        \A r \in Roles :
            imgSrc[r] # NoElement =>
                imgSrc[r] = shows(r, getEffectiveTheme(currentTheme, hasMatchMedia,
                                                       systemDark) = THEME_DARK)

\* C7: with no persisted preference, a root element that carries theme-auto or
\* no theme marker class, and a dark system signal, ThemeManager.init leaves
\* every image that exists on its dark path.
C7_InitShowsDarkUnderAuto ==
    ( /\ lastOp.op = "appInit"
      /\ storage = None
      /\ markers(rootClasses) \subseteq {THEME_AUTO}
      /\ hasMatchMedia /\ systemDark ) =>
        \A r \in Roles : imgSrc[r] # NoElement => imgSrc[r] = IMAGES[r].dark

C9_EffectiveTheme ==
    lastOp.op = "query" =>
        /\ currentTheme = THEME_LIGHT => effective = THEME_LIGHT
        /\ currentTheme = THEME_DARK => effective = THEME_DARK
        /\ currentTheme = THEME_AUTO =>
              effective = (IF systemDark THEN THEME_DARK ELSE THEME_LIGHT)

\* C9 happens: the markup says theme-auto, the system signal was false at
\* load and is true now, and a call under theme-auto has returned theme-dark
C9_Witness ==
    /\ lastOp.op = "query"
    /\ currentTheme = THEME_AUTO /\ systemDark
    /\ icons = {"moon-icon"} /\ imgSrc["signature"] = IMAGES["signature"].dark
    /\ html.img["signature"] = IMAGES["signature"].light
    /\ effective = THEME_DARK

\* the most recent window event, None if there was none
lastWindowEvent ==
    IF windowEvents = << >> THEN None ELSE windowEvents[Len(windowEvents)]

\* the away message of the page: the blur listener registered last sets it
awayMessage == IF mainScript THEN BLUR_TITLE ELSE LEGACY_BLUR_TITLE

\* C10: after initialization the document title is the away message when the
\* most recent window event was a blur, and the title the markup gave the page
\* when it was a focus or when there was no event; the captured titles are
\* never overwritten.
C10_TitleFollowsFocus ==
    /\ lastWindowEvent = "blur" => title = awayMessage
    /\ lastWindowEvent \in {"focus", None} => title = html.title
    /\ mainScript => originalTitle = html.title
    /\ legacyScript => docTitle = html.title

\* C10 happens: two blurs and then a focus, and the title is back
C10_Witness ==
    /\ windowEvents = << "blur", "blur", "focus" >>
    /\ mainScript /\ ~legacyScript
    /\ html.title = "vncsmnl" /\ title = "vncsmnl"


\* the handler that ran last ended with a call of updateUI and nothing has
\* changed since: init, an option's listener, the change listener under
\* theme-auto, or a call of updateUI itself
endedWithUpdateUI ==
    \/ lastOp.op \in {"modalInit", "option", "updateUI"}
    \/ (lastOp.op = "system" /\ currentTheme = THEME_AUTO)

\* C11: updateUI is idempotent: a call of updateUI that follows a call of
\* updateUI, with no change of state between the two, leaves the set of active
\* icons and the set of active options as the first call left them.
C11_UpdateUIIdempotent ==
    [][ (endedWithUpdateUI /\ lastOp'.op = "updateUI")
          => (icons' = icons /\ activeOptions' = activeOptions) ]_vars

\* C11 happens: updateUI was called twice in a row under theme-auto with a dark
\* system signal, on markup whose auto icon was active
C11_Witness ==
    /\ lastOp.op = "updateUI" /\ lastOp.arg = "again"
    /\ currentTheme = THEME_AUTO /\ systemDark
    /\ html.icons = {"auto-icon"}
    /\ icons = {"moon-icon"} /\ activeOptions = {THEME_AUTO}


\* C12: ThemeManager.destroy stops the reaction to class mutations: after it the
\* observer is gone, class changes queue no record, and the callback runs only
\* while the observer is there, so no class change rewrites an image through
\* it; a call when the observer is already gone, or was never set up, changes
\* nothing; no call raises an error or touches an image.
C12_DestroyStopsObserver ==
    /\ [](lastOp.op = "destroy" => observer = "null")
    /\ [](observer = "null" => pending = << >>)
    /\ [][ lastOp'.op = "observer" => observer = "observing" ]_vars
    /\ [][ (observer = "null" /\ rootClasses' # rootClasses /\ lastOp'.op # "load")
             => imgSrc' = imgSrc ]_vars
    /\ [][ lastOp'.op = "destroy"
             => /\ err' = err /\ imgSrc' = imgSrc /\ pending' = pending
                /\ observer = "null" => observer' = observer ]_vars

\* C12 happens: the observer was set up and destroyed, destroy was called once
\* more, and the selection of theme-dark that followed left the image on its
\* light path
C12_Witness ==
    /\ lastOp.op = "destroy" /\ lastOp.arg = "stopped"
    /\ appInitDone /\ tmMediaBound
    /\ rootClasses = {THEME_DARK} /\ lastSetTheme = THEME_DARK
    /\ html.root = {THEME_LIGHT}
    /\ imgSrc["signature"] = IMAGES["signature"].light
    /\ ~err


\* C13: without window.matchMedia no operation of either component raises an
\* error, and a preference of auto is resolved as light: after the popover's
\* init the sun icon is the active one, and after the synchronizer's init
\* every image that exists under a theme-auto root shows its light path.
C13_DegradesWithoutMatchMedia ==
    ~hasMatchMedia =>
        /\ ~err
        /\ (modalInitDone /\ currentTheme = THEME_AUTO) => icons = {"sun-icon"}
        /\ (appInitDone /\ pending = << >> /\ markers(rootClasses) = {THEME_AUTO}) =>
               \A r \in Roles :
                   imgSrc[r] # NoElement => imgSrc[r] = IMAGES[r].light


\* C14: the stored preference is written by setTheme only and never removed:
\* after the selection of an option with theme t the stored value is t; once
\* setTheme has run since the page was loaded, the stored value, currentTheme
\* and the one marker class of the root element are equal; the stored value
\* changes in a selection only, to the selected theme; opening, closing and
\* system colour scheme changes leave it alone; and a stored value, once
\* there, is there after every step, a reload of the page included.
C14_StoredPreference ==
    /\ [](lastOp.op = "option" => storage = lastOp.arg)
    /\ [](lastSetTheme # None =>
              /\ storage = lastSetTheme
              /\ currentTheme = lastSetTheme
              /\ markers(rootClasses) = {lastSetTheme})
    /\ [][ storage' # storage =>
              (lastOp'.op = "option" /\ storage' = lastOp'.arg) ]_vars
    /\ [][ lastOp'.op \in {"toggle", "click", "key", "system"} =>
              storage' = storage ]_vars
    /\ [][ storage # None => storage' # None ]_vars

\* C14 happens: theme-dark was stored by an earlier page load, the page was
\* loaded again, theme-light was selected, the panel was opened again and the
\* system colour scheme changed
C14_Witness ==
    /\ lastOp.op = "system" /\ isOpen
    /\ prevTheme = THEME_DARK
    /\ lastSetTheme = THEME_LIGHT /\ storage = THEME_LIGHT
    /\ currentTheme = THEME_LIGHT /\ rootClasses = {THEME_LIGHT}


\* C15: a system colour scheme change matters under auto only: when the root
\* element carries theme-light or theme-dark and currentTheme is that value,
\* the change leaves the active icon, the active option and every image source
\* as they were; when currentTheme is theme-auto and the root element carries
\* theme-auto, the change makes the other of the sun and moon icons the active
\* one and moves every image that exists to the path of the new signal.
C15_SystemChangeOnlyUnderAuto ==
    [][ (lastOp'.op = "system" /\ mainScript) =>
          /\ (currentTheme \in {THEME_LIGHT, THEME_DARK} /\ currentTheme \in rootClasses) =>
                 /\ icons' = icons
                 /\ activeOptions' = activeOptions
                 /\ imgSrc' = imgSrc
          /\ (currentTheme = THEME_AUTO /\ THEME_AUTO \in rootClasses) =>
                 /\ icons' = {IF systemDark' THEN "moon-icon" ELSE "sun-icon"}
                 /\ icons' # icons
                 /\ \A r \in Roles :
                        imgSrc'[r] # NoElement =>
                            imgSrc'[r] = shows(r, systemDark') /\ imgSrc'[r] # imgSrc[r]
      ]_vars


\* C16: the two DOMContentLoaded handlers may run in either order: with a valid
\* stored preference p, once ThemeManager.init and ThemeToggleModal.init have
\* both run and the queued mutation records have been delivered, p is the one
\* marker class of the root element and every image that exists shows the
\* path isDarkMode selects for p (where isDarkMode returns for p).  The state
\* is fixed by the page and p, so it is the same in both orders.
C16_InitOrderIndependent ==
    ( /\ mainScript /\ appInitDone /\ modalInitDone
      /\ pending = << >>
      /\ lastOp.op \in {"appInit", "modalInit", "observer"}
      /\ storage \in ValidThemes
      /\ ~isDarkModeThrows({storage}, hasMatchMedia) ) =>
        /\ markers(rootClasses) = {storage}
        /\ \A r \in Roles :
               imgSrc[r] # NoElement =>
                   imgSrc[r] = shows(r, isDarkMode({storage}, hasMatchMedia, systemDark))


\* C17: from the popover's init on, through selections and system colour
\* scheme changes, exactly one icon of the toggle button is active: the sun
\* icon iff getEffectiveTheme() is theme-light, the moon icon iff it is
\* theme-dark, never the auto icon; and the active options are exactly those
\* whose theme is currentTheme.
C17_IconTracksEffectiveTheme ==
    modalInitDone =>
        LET eff == getEffectiveTheme(currentTheme, hasMatchMedia, systemDark)
        IN  /\ Cardinality(icons) = 1
            /\ "sun-icon" \in icons <=> eff = THEME_LIGHT
            /\ "moon-icon" \in icons <=> eff = THEME_DARK
            /\ "auto-icon" \notin icons
            /\ activeOptions = {o \in Options : o = currentTheme}

\* C17 happens: on a page whose markup has the auto icon active, theme-auto was
\* selected and the system colour scheme then changed to dark
C17_Witness ==
    /\ lastOp.op = "system" /\ systemDark
    /\ html.icons = {"auto-icon"}
    /\ lastSetTheme = THEME_AUTO /\ currentTheme = THEME_AUTO
    /\ icons = {"moon-icon"} /\ activeOptions = {THEME_AUTO}


\* C18: between event handlers isOpen is true iff the options panel carries
\* 'active'; the flag and the class change in the same steps, and only in the
\* handlers that reach openPanel or closePanel (the toggle button's, an
\* option's, the document's click and keydown listeners).
C18_FlagMatchesPanelClass ==
    /\ [](isOpen <=> panelActive)
    /\ [][ (isOpen' # isOpen \/ panelActive' # panelActive) =>
              /\ isOpen' # isOpen /\ panelActive' # panelActive
              /\ lastOp'.op \in {"toggle", "option", "click", "key"} ]_vars

\* C18 happens: the toggle button opened the panel
C18_Witness ==
    /\ lastOp.op = "toggle" /\ ~lastOp.wasOpen
    /\ isOpen /\ panelActive

\* C19: opening or closing the popover by the toggle button, a click elsewhere
\* or a key changes the open state only, and the focus when it opens:
\* currentTheme, the root element's classes, the stored preference, the active
\* icon, the active option and every image source stay as they were, and no
\* mutation record is queued.
C19_OpenCloseFrame ==
    [][ lastOp'.op \in {"toggle", "click", "key"} =>
          /\ UNCHANGED << currentTheme, rootClasses, storage, icons,
                          activeOptions, imgSrc, pending >>
          /\ (~isOpen /\ isOpen') => focused' = "first-option"
          /\ focused' # focused => (~isOpen /\ isOpen')
      ]_vars

\* C19 happens: with theme-dark selected and the observer's callback delivered,
\* the popover was opened again and Escape closed it
C19_Witness ==
    /\ lastOp.op = "key" /\ lastOp.arg = "Escape" /\ lastOp.wasOpen /\ ~isOpen
    /\ focused = "first-option"
    /\ lastSetTheme = THEME_DARK /\ rootClasses = {THEME_DARK}
    /\ html.root = {THEME_LIGHT}
    /\ imgSrc["signature"] = IMAGES["signature"].dark

====
